---- MODULE Spec2Model ----
(***************************************************************************)
(* The plant store of server/app.py: a Flask application over one SQLite   *)
(* table, plants (server/models.py), filled by server/seed.py.             *)
(*                                                                         *)
(* A text is a sequence of Unicode code points.  A natural number of any   *)
(* size is the sequence of its decimal digits, most significant first      *)
(* ("long" below); machine integers are used where they stay small.        *)
(***************************************************************************)
EXTENDS Integers, Sequences, FiniteSets, TLC

VARIABLES
    plants,      \* the table: id -> row
    flight,      \* the requests between two statements of their handler
    req,         \* the request answered last
    resp,        \* its response
    rolledBack,  \* whether its handler rolled the session back
    issuedLog,   \* the ids of the 201 responses, in order
    made,        \* the ids a row was ever inserted with
    gone,        \* the ids a DELETE has answered 200 for
    live,        \* id -> body of the last 201 for it, until its row is deleted
    nCreated,    \* the number of 201 responses
    nDeleted,    \* the number of 200 responses to DELETE
    nReq,        \* the number of requests that arrived
    seedPc,      \* where seed.py is: "idle", or at "insert" after its delete
    nSeed        \* the number of runs of seed.py

vars == <<plants, flight, req, resp, rolledBack, issuedLog, made, gone, live,
          nCreated, nDeleted, nReq, seedPc, nSeed>>

\* The number of requests, the largest id asked for, the number of requests
\* served at a time, and the number of runs of seed.py
MaxReq == 3

MaxId == 3

MaxInFlight == 2

MaxSeed == 1

\* Numeric(10, 2): the scale of the price column
Scale == 2

(***************************************************************************)
(* Texts.  A definition that looks at its argument more than once is a     *)
(* function: its argument is a value, computed once.                       *)
(***************************************************************************)
Texts == Seq(Nat)

Digits == Seq(0..9)

\* The printable ASCII characters, from code point 32 (three of them by name)
Chars ==
    << " ", "!", "QUOTE", "#", "$", "%", "&", "'", "(", ")", "*", "+", ",", "-",
       ".", "/", "0", "1", "2", "3", "4", "5", "6", "7", "8", "9", ":", ";",
       "<", "=", ">", "?", "@", "A", "B", "C", "D", "E", "F", "G", "H", "I",
       "J", "K", "L", "M", "N", "O", "P", "Q", "R", "S", "T", "U", "V", "W",
       "X", "Y", "Z", "[", "BACKSLASH", "]", "^", "_", "BACKTICK", "a", "b", "c", "d", "e",
       "f", "g", "h", "i", "j", "k", "l", "m", "n", "o", "p", "q", "r", "s",
       "t", "u", "v", "w", "x", "y", "z", "{", "|", "}", "~" >>

Ord(ch) == 31 + CHOOSE i \in 1..Len(Chars) : Chars[i] = ch

\* The text of a sequence of printable ASCII characters
Text(chs) == [i \in 1..Len(chs) |-> Ord(chs[i])]

Front(s) == SubSeq(s, 1, Len(s) - 1)

Last(s) == s[Len(s)]

Drop(s, n) == SubSeq(s, n + 1, Len(s))

StartsWith[s \in Texts, p \in Texts] == Len(s) >= Len(p) /\ SubSeq(s, 1, Len(p)) = p

\* The first index of c in s, 0 if there is none
IndexOf[s \in Texts, c \in Nat] ==
    IF \E i \in 1..Len(s) : s[i] = c
    THEN CHOOSE i \in 1..Len(s) : s[i] = c /\ \A j \in 1..(i - 1) : s[j] # c
    ELSE 0

\* s without any c
RemoveAll[s \in Texts, c \in Nat] ==
    IF \A i \in 1..Len(s) : s[i] # c THEN s
    ELSE IF Len(s) = 1 THEN <<>>
    ELSE RemoveAll[SubSeq(s, 1, Len(s) \div 2), c] \o RemoveAll[Drop(s, Len(s) \div 2), c]

Zeros(n) == [i \in 1..n |-> 0]

Reverse[s \in Digits] == [i \in 1..Len(s) |-> s[Len(s) + 1 - i]]

Min(x, y) == IF x < y THEN x ELSE y

\* The text of a sequence of digits
DigitText[a \in Digits] == [i \in 1..Len(a) |-> 48 + a[i]]

\* The digits of a text of ASCII digits
DigitVals[t \in Texts] == [i \in 1..Len(t) |-> t[i] - 48]

(***************************************************************************)
(* Long naturals                                                           *)
(***************************************************************************)
BigIsZero[a \in Digits] == \A i \in 1..Len(a) : a[i] = 0

\* Without leading zeros
Payload[a \in Digits] ==
    IF BigIsZero[a] THEN <<>>
    ELSE Drop(a, (CHOOSE i \in 1..Len(a) : a[i] # 0 /\ \A j \in 1..(i - 1) : a[j] = 0) - 1)

\* The long natural of a sequence of digits
BigTrim[a \in Digits] == IF BigIsZero[a] THEN <<0>> ELSE Payload[a]

BigOdd[a \in Digits] == Last(a) % 2 = 1

\* a < b, for a and b without leading zeros
BigLess[a \in Digits, b \in Digits] ==
    \/ Len(a) < Len(b)
    \/ /\ Len(a) = Len(b)
       /\ \E i \in 1..Len(a) : a[i] < b[i] /\ \A j \in 1..(i - 1) : a[j] = b[j]

BigOfNat[n \in Nat] == IF n < 10 THEN <<n>> ELSE Append(BigOfNat[n \div 10], n % 10)

NatOfBig[a \in Digits] == IF a = <<>> THEN 0 ELSE 10 * NatOfBig[Front(a)] + Last(a)

\* Digits, least significant first, with the carry out of them
Carried == [digits : Digits, carry : Nat]

\* The digits of r * m + c and the carry out of them, for digits r given
\* least significant first: the low half, then the high half with the carry
\* of the low half
RECURSIVE MulCarry(_, _, _)
MulJoin[low \in Digits, high \in Carried] ==
    [digits |-> low \o high.digits, carry |-> high.carry]

MulHigh[low \in Carried, r \in Digits, m \in Nat] ==
    MulJoin[low.digits, MulCarry(r, m, low.carry)]

MulCarry(r, m, c) ==
    IF r = <<>> THEN [digits |-> <<>>, carry |-> c]
    ELSE IF Len(r) = 1
    THEN [digits |-> <<(r[1] * m + c) % 10>>, carry |-> (r[1] * m + c) \div 10]
    ELSE MulHigh[MulCarry(SubSeq(r, 1, Len(r) \div 2), m, c), Drop(r, Len(r) \div 2), m]

\* The long natural of digits and a carry
Uncarried[p \in Carried] == BigTrim[BigOfNat[p.carry] \o Reverse[p.digits]]

MulStart[r \in Digits, m \in Nat, c \in Nat] == Uncarried[MulCarry(r, m, c)]

\* a * m + c, for m up to 2^27
BigMulAdd[a \in Digits, m \in Nat, c \in Nat] == MulStart[Reverse[a], m, c]

BigMulSmall[a \in Digits, m \in Nat] == BigMulAdd[a, m, 0]

BigAddSmall[a \in Digits, n \in Nat] == BigMulAdd[a, 1, n]

\* The digits of a quotient, with the remainder
Divided == [q : Digits, r : Nat]

\* The digits of the quotient of r * 10^Len(a) + a by m and the remainder:
\* the high half, then the low half with the remainder of the high half
RECURSIVE DivRem(_, _, _)
DivJoin[high \in Digits, low \in Divided] == [q |-> high \o low.q, r |-> low.r]

DivLow[high \in Divided, a \in Digits, m \in Nat] ==
    DivJoin[high.q, DivRem(a, m, high.r)]

DivRem(a, m, r) ==
    IF a = <<>> THEN [q |-> <<>>, r |-> r]
    ELSE IF Len(a) = 1
    THEN [q |-> <<(r * 10 + a[1]) \div m>>, r |-> (r * 10 + a[1]) % m]
    ELSE DivLow[DivRem(SubSeq(a, 1, Len(a) \div 2), m, r), Drop(a, Len(a) \div 2), m]

DivTrim[p \in Divided] == [q |-> BigTrim[p.q], r |-> p.r]

\* quotient and remainder of a by m, for m up to 2^27
BigDivSmall[a \in Digits, m \in Nat] == DivTrim[DivRem(a, m, 0)]

\* a * 2^n, 27 bits at a time
ShiftLeft[a \in Digits, n \in Nat] ==
    IF n <= 27 THEN BigMulSmall[a, 2^n]
    ELSE ShiftLeft[ShiftLeft[a, n \div 2], n - n \div 2]

\* A long natural that bits were shifted out of; sticky: one of them was 1
Shifted == [q : Digits, sticky : BOOLEAN]

ShiftOut[p \in Divided, sticky \in BOOLEAN] == [q |-> p.q, sticky |-> sticky \/ p.r # 0]

\* x.q \div 2^n, 27 bits at a time
ShiftRight[x \in Shifted, n \in Nat] ==
    IF n <= 27 THEN ShiftOut[BigDivSmall[x.q, 2^n], x.sticky]
    ELSE ShiftRight[ShiftRight[x, n \div 2], n - n \div 2]

\* q rounded to the nearest natural, ties to even, of h.q + (h.r + f) / 2
\* with 0 <= f < 1; sticky: f > 0
HalfEven[h \in Divided, sticky \in BOOLEAN] ==
    IF h.r = 1 /\ (sticky \/ BigOdd[h.q]) THEN BigAddSmall[h.q, 1] ELSE h.q

Two53 == ShiftLeft[<<1>>, 53]

Two54 == ShiftLeft[<<1>>, 54]

(***************************************************************************)
(* decimal.Decimal                                                         *)
(***************************************************************************)
\* The code points str.isspace() is true of
WhiteSpace ==
    {9, 10, 11, 12, 13, 28, 29, 30, 31, 32, 133, 160, 5760}
        \cup (8192..8202) \cup {8232, 8233, 8239, 8287, 12288}

\* The digit zero of every script with decimal digits; its nine successors
\* are the digits 1 to 9
DigitZeros ==
    {48, 1632, 1776, 1984, 2406, 2534, 2662, 2790, 2918, 3046, 3174, 3302,
     3430, 3558, 3664, 3792, 3872, 4160, 4240, 6112, 6160, 6470, 6608, 6784,
     6800, 6992, 7088, 7232, 7248, 42528, 43216, 43264, 43472, 43504, 43600,
     44016, 65296, 66720, 68912, 69734, 69872, 69942, 70096, 70384, 70736,
     70864, 71248, 71360, 71472, 71904, 72016, 72784, 73040, 73120, 92768,
     92864, 93008, 120782, 120792, 120802, 120812, 120822, 123200, 123632,
     125264, 130032}

\* The value of a decimal digit of any script, -1 for any other code point
DecimalDigit[c \in Nat] ==
    IF \E z \in DigitZeros : c \in z..(z + 9)
    THEN c - (CHOOSE z \in DigitZeros : c \in z..(z + 9))
    ELSE -1

\* s from the least to the greatest of the indices inner
Between[s \in Texts, inner \in SUBSET Nat] ==
    IF inner = {} THEN <<>>
    ELSE SubSeq(s, CHOOSE i \in inner : \A j \in inner : i <= j,
                   CHOOSE i \in inner : \A j \in inner : j <= i)

\* str.strip(): from the first code point that is not whitespace to the last
Strip[s \in Texts] == Between[s, {i \in 1..Len(s) : s[i] \notin WhiteSpace}]

\* The ASCII character the Decimal constructor reads for a code point, in
\* lower case; 0 for one it rejects
AsciiOf[c \in Nat] ==
    IF c \in 65..90 THEN c + 32
    ELSE IF c \in 1..127 THEN c
    ELSE IF c \in WhiteSpace THEN 32
    ELSE IF DecimalDigit[c] >= 0 THEN 48 + DecimalDigit[c]
    ELSE 0

Ascii[t \in Texts] == [i \in 1..Len(t) |-> AsciiOf[t[i]]]

\* The text the Decimal constructor parses: stripped of surrounding
\* whitespace, underscores removed, every code point as ASCII
AsAscii[s \in Texts] == Ascii[RemoveAll[Strip[s], 95]]

IsDigit(c) == c \in 48..57

AllDigits[a \in Texts] == \A i \in 1..Len(a) : IsDigit(a[i])

Negative[a \in Texts] == a # <<>> /\ a[1] = 45

\* Without a leading sign
Unsigned[a \in Texts] == IF a # <<>> /\ a[1] \in {43, 45} THEN Tail(a) ELSE a

LiteralInf == Text(<<"i", "n", "f">>)

LiteralInfinity == Text(<<"i", "n", "f", "i", "n", "i", "t", "y">>)

LiteralNaN == Text(<<"n", "a", "n">>)

LiteralSNaN == Text(<<"s", "n", "a", "n">>)

IsInfLiteral[b \in Texts] == b = LiteralInf \/ b = LiteralInfinity

\* nan, with or without payload digits
IsNaNLiteral[b \in Texts] == StartsWith[b, LiteralNaN] /\ AllDigits[Drop(b, 3)]

IsSNaNLiteral[b \in Texts] == StartsWith[b, LiteralSNaN] /\ AllDigits[Drop(b, 4)]

\* The parts of digits[.digits][e[sign]digits]
HasExp[b \in Texts] == IndexOf[b, 101] # 0

Mantissa[b \in Texts] == IF HasExp[b] THEN SubSeq(b, 1, IndexOf[b, 101] - 1) ELSE b

ExpText[b \in Texts] == IF HasExp[b] THEN Drop(b, IndexOf[b, 101]) ELSE <<>>

BeforePoint[m \in Texts] ==
    IF IndexOf[m, 46] = 0 THEN m ELSE SubSeq(m, 1, IndexOf[m, 46] - 1)

AfterPoint[m \in Texts] == IF IndexOf[m, 46] = 0 THEN <<>> ELSE Drop(m, IndexOf[m, 46])

IntPart[b \in Texts] == BeforePoint[Mantissa[b]]

FracPart[b \in Texts] == AfterPoint[Mantissa[b]]

IsNumberLiteral[b \in Texts] ==
    /\ AllDigits[IntPart[b]]
    /\ AllDigits[FracPart[b]]
    /\ Len(IntPart[b]) + Len(FracPart[b]) > 0
    /\ HasExp[b] => (Unsigned[ExpText[b]] # <<>> /\ AllDigits[Unsigned[ExpText[b]]])

\* The coefficient, and the exponent as written
CoefOf[b \in Texts] == BigTrim[DigitVals[IntPart[b] \o FracPart[b]]]

ExpMagnitude[b \in Texts] == BigTrim[DigitVals[Unsigned[ExpText[b]]]]

\* The largest adjusted exponent, 999999999999999999, plus one; and the
\* magnitude of the smallest exponent, 1999999999999999997
EmaxPlus1 == <<1>> \o Zeros(18)

EtinyMagnitude == <<1>> \o [i \in 1..17 |-> 9] \o <<7>>

\* The exponent is outside what a Decimal holds
ExpOutOfRange[b \in Texts] ==
    IF Negative[ExpText[b]]
    THEN BigLess[EtinyMagnitude, BigAddSmall[ExpMagnitude[b], Len(FracPart[b])]]
    ELSE BigLess[BigAddSmall[EmaxPlus1, Len(FracPart[b])],
                 BigAddSmall[ExpMagnitude[b], Len(CoefOf[b])]]

\* b, unsigned and as ASCII, is none of the literals of a Decimal
NoLiteral[b \in Texts] ==
    /\ ~ IsInfLiteral[b]
    /\ ~ IsNaNLiteral[b]
    /\ ~ IsSNaNLiteral[b]
    /\ ~ (IsNumberLiteral[b] /\ ~ ExpOutOfRange[b])

\* Decimal(s) raises decimal.InvalidOperation
DecimalRaises[s \in Texts] == NoLiteral[Unsigned[AsAscii[s]]]

\* A Decimal: kind "num" (coef * 10^exp, negated if neg), "inf", "nan" or
\* "snan" (coef: the payload digits, none for no payload)
Dec(kind, neg, coef, exp) == [kind |-> kind, neg |-> neg, coef |-> coef, exp |-> exp]

Decimals ==
    [kind : {"num", "inf", "nan", "snan", "null", "none"}, neg : BOOLEAN,
     coef : Digits, exp : Int]

\* An exponent of ten digits or more is kept as 10^9: what it is converted
\* to, infinity or zero, is the same
ExpOf[b \in Texts] ==
    LET e == IF Len(ExpMagnitude[b]) > 9 THEN 10^9 ELSE NatOfBig[ExpMagnitude[b]]
    IN  (IF Negative[ExpText[b]] THEN 0 - e ELSE e) - Len(FracPart[b])

\* The Decimal of a literal a, as ASCII, and of its unsigned part b
Literal[a \in Texts, b \in Texts] ==
    IF IsInfLiteral[b] THEN Dec("inf", Negative[a], <<0>>, 0)
    ELSE IF IsNaNLiteral[b]
    THEN Dec("nan", Negative[a], Payload[DigitVals[Drop(b, 3)]], 0)
    ELSE IF IsSNaNLiteral[b]
    THEN Dec("snan", Negative[a], Payload[DigitVals[Drop(b, 4)]], 0)
    ELSE Dec("num", Negative[a], CoefOf[b], ExpOf[b])

Signed[a \in Texts] == Literal[a, Unsigned[a]]

\* Decimal(s), for s that it does not raise on
DecimalOf[s \in Texts] == Signed[AsAscii[s]]

\* str(n) for a machine integer
IntText[n \in Int] ==
    IF n < 0 THEN <<45>> \o DigitText[BigOfNat[0 - n]] ELSE DigitText[BigOfNat[n]]

\* str(d), which is also '{}'.format(d)
StrOfDecimal[d \in Decimals] ==
    LET sign       == IF d.neg THEN <<45>> ELSE <<>>
        digits     == DigitText[d.coef]
        leftdigits == d.exp + Len(d.coef)
        dotplace   == IF d.exp <= 0 /\ leftdigits > -6 THEN leftdigits ELSE 1
        intpart    == IF dotplace <= 0 THEN <<48>>
                      ELSE IF dotplace >= Len(d.coef)
                      THEN digits \o DigitText[Zeros(dotplace - Len(d.coef))]
                      ELSE SubSeq(digits, 1, dotplace)
        fracpart   == IF dotplace <= 0
                      THEN <<46>> \o DigitText[Zeros(0 - dotplace)] \o digits
                      ELSE IF dotplace >= Len(d.coef) THEN <<>>
                      ELSE <<46>> \o Drop(digits, dotplace)
        exppart    == IF leftdigits = dotplace THEN <<>>
                      ELSE <<69>> \o (IF leftdigits > dotplace THEN <<43>> ELSE <<>>)
                               \o IntText[leftdigits - dotplace]
    IN  CASE d.kind = "inf"  -> sign \o Text(<<"I", "n", "f", "i", "n", "i", "t", "y">>)
          [] d.kind = "nan"  -> sign \o Text(<<"N", "a", "N">>) \o digits
          [] d.kind = "snan" -> sign \o Text(<<"s", "N", "a", "N">>) \o digits
          [] OTHER           -> sign \o intpart \o fracpart \o exppart

(***************************************************************************)
(* float(d), and "%.2f" of it                                              *)
(***************************************************************************)
\* d.coef * 10^d.exp as a quotient T / 10^k of long naturals
Numerator[d \in Decimals] == IF d.exp >= 0 THEN d.coef \o Zeros(d.exp) ELSE d.coef

DenominatorExp[d \in Decimals] == IF d.exp >= 0 THEN 0 ELSE 0 - d.exp

\* T \div 10^k, and whether the remainder is nonzero
Quot10[T \in Digits, k \in Nat] ==
    [q |-> IF Len(T) > k THEN BigTrim[SubSeq(T, 1, Len(T) - k)] ELSE <<0>>,
     sticky |-> \E i \in 1..Len(T) : i > Len(T) - k /\ T[i] # 0]

\* The exponent of d in scientific notation
Adjusted[d \in Decimals] == Len(d.coef) + d.exp - 1

\* A power of two that is at most d: log2(10) lies between 3.3219 and 3.3220
Log2Under[d \in Decimals] ==
    (Adjusted[d] * (IF Adjusted[d] >= 0 THEN 33219 ELSE 33220)) \div 10000

\* (x.q + f) * 2^shift, with 0 <= f < 1; sticky: f > 0
Scaleds == [q : Digits, sticky : BOOLEAN, shift : Int]

WithShift[x \in Shifted, shift \in Int] ==
    [q |-> x.q, sticky |-> x.sticky, shift |-> shift]

\* The same number with x.q below 2^54, by halving
Halve[x \in Scaleds] ==
    IF BigLess[x.q, Two54] THEN x
    ELSE Halve[WithShift[ShiftRight[[q |-> x.q, sticky |-> x.sticky], 1], x.shift + 1]]

\* A nonzero d as (q + f) * 2^shift with 2^53 <= q < 2^54
ScaledBy[d \in Decimals, shift \in Int] ==
    Halve[WithShift[IF shift >= 0
                    THEN ShiftRight[Quot10[Numerator[d], DenominatorExp[d]], shift]
                    ELSE Quot10[ShiftLeft[Numerator[d], 0 - shift], DenominatorExp[d]],
                    shift]]

Scaled[d \in Decimals] == ScaledBy[d, Log2Under[d] - 53]

\* A float m * 2^e
Floats == [m : Digits, e : Int]

\* The 53-bit significand nearest to s, ties to even, and its exponent
Nearest[s \in Scaleds] ==
    [m |-> HalfEven[BigDivSmall[s.q, 2], s.sticky], e |-> s.shift + 1]

\* The float nearest to a nonzero d
Binary[d \in Decimals] == Nearest[Scaled[d]]

\* 2^1024 or more
TooLarge[f \in Floats] == f.e >= 972 \/ (f.e = 971 /\ f.m = Two53)

\* float(d) is inf: d rounds to 2^1024 or more
Overflows[d \in Decimals] ==
    IF Adjusted[d] >= 309 THEN TRUE
    ELSE IF Adjusted[d] <= 307 THEN FALSE
    ELSE TooLarge[Binary[d]]

\* At most 2^-1075, half the smallest float
TooSmall[s \in Scaleds] ==
    s.shift < -1128 \/ (s.shift = -1128 /\ s.q = Two53 /\ ~ s.sticky)

\* float(d) is zero
Underflows[d \in Decimals] ==
    IF Adjusted[d] <= -325 THEN TRUE
    ELSE IF Adjusted[d] >= -323 THEN FALSE
    ELSE TooSmall[Scaled[d]]

\* The number of zeros a nonzero a ends with
TrailingZeros[a \in Digits] ==
    Len(a) - CHOOSE i \in 1..Len(a) : a[i] # 0 /\ \A j \in (i + 1)..Len(a) : a[j] = 0

\* d without n of its fraction digits, which are zeros
Shorter[d \in Decimals, n \in Nat] ==
    Dec("num", d.neg, SubSeq(d.coef, 1, Len(d.coef) - n), d.exp + n)

\* The same number with no trailing fraction zeros, and as an integer if it
\* is one of up to 7 digits
Normal[d \in Decimals] ==
    IF BigIsZero[d.coef] THEN Dec("num", d.neg, <<0>>, 0)
    ELSE IF d.exp < 0 THEN Shorter[d, Min(TrailingZeros[d.coef], 0 - d.exp)]
    ELSE IF d.exp > 0 /\ Len(d.coef) + d.exp <= 7
    THEN Dec("num", d.neg, d.coef \o Zeros(d.exp), 0)
    ELSE d

\* The e with 2^e <= N / D < 2^(e + 1), for N / D between 2^-10 and 2^30
Log2Floor[N \in Nat, D \in Nat] ==
    CHOOSE e \in -10..29 :
        IF e >= 0 THEN N \div 2^e >= D /\ N \div 2^(e + 1) < D
        ELSE N * 2^(0 - e) >= D /\ N * 2^(0 - e - 1) < D

PowModSquare[x \in Nat, P \in Nat] == (x * x) % P

\* b^n modulo P
PowMod[b \in Nat, n \in Nat, P \in Nat] ==
    IF n = 0 THEN 1 % P
    ELSE IF n % 2 = 1 THEN (b * PowMod[b, n - 1, P]) % P
    ELSE PowModSquare[PowMod[b, n \div 2, P], P]

\* q or q + 1: the quotient of coef by unit = 10^k rounded to an integer, a
\* tie going the way the float of coef lies.  The float of the tie
\* N / (2 * 10^places), N = 2 * q + 1, has 53 bits, its last of weight 2^-s;
\* it lies above the tie when the remainder of N * 2^(s - places - 1) by
\* P = 5^places is more than half of P.
RoundTie[q \in Nat, places \in Nat] ==
    LET N == 2 * q + 1
        P == 5^places
        s == 52 - Log2Floor[N, 2 * 10^places]
    IN  IF N % P = 0 THEN (IF q % 2 = 1 THEN q + 1 ELSE q)
        ELSE IF 2 * (((N % P) * PowMod[2, s - (places + 1), P]) % P) > P THEN q + 1
        ELSE q

RoundQuotient[coef \in Nat, unit \in Nat, places \in Nat] ==
    IF 2 * (coef % unit) > unit THEN coef \div unit + 1
    ELSE IF 2 * (coef % unit) < unit THEN coef \div unit
    ELSE RoundTie[coef \div unit, places]

\* "%.{places}f" of the float nearest to v, as an integer count of units
\* 10^-places, for v of up to 7 digits: v itself rounded
RoundShort[v \in Decimals, places \in Nat] ==
    IF 0 - v.exp <= places THEN NatOfBig[v.coef] * 10^(places + v.exp)
    ELSE IF 0 - v.exp - places >= 10 THEN 0
    ELSE RoundQuotient[NatOfBig[v.coef], 10^(0 - v.exp - places), places]

\* h.q + (a fraction), halved and rounded to an integer, ties to even
RoundHalf[h \in Shifted] == HalfEven[BigDivSmall[h.q, 2], h.sticky]

\* Y * 2^e rounded to an integer, ties to even
RoundScaled[Y \in Digits, e \in Int] ==
    IF e >= 0 THEN ShiftLeft[Y, e]
    ELSE IF 0 - e > 80 THEN <<0>>
    ELSE RoundHalf[ShiftRight[[q |-> Y, sticky |-> FALSE], 0 - e - 1]]

RoundFloat[f \in Floats, places \in Nat] ==
    RoundScaled[BigTrim[f.m \o Zeros(places)], f.e]

\* "%.{places}f" % v for the stored float v, in units of 10^-places: by
\* machine integers for a v of up to 7 digits, else m * 2^e * 10^places
\* rounded to an integer, ties to even
RoundTo[v \in Decimals, places \in Nat] ==
    IF Len(v.coef) <= 7 /\ v.exp <= 0 THEN BigOfNat[RoundShort[v, places]]
    ELSE RoundFloat[Binary[v], places]

(***************************************************************************)
(* The price column, Numeric(10, 2) on SQLite                              *)
(***************************************************************************)
NULL == Dec("null", FALSE, <<0>>, 0)

\* float(d) raises ValueError: a signaling NaN
BindRaises(d) == d.kind = "snan"

\* Bind: float(d), as SQLite stores it in a column of NUMERIC affinity.  A
\* number stands for the float nearest to it.  NaN is stored as NULL, and a
\* zero of either sign as the integer 0.
BindProcessor[d \in Decimals] ==
    CASE d.kind = "nan" -> NULL
      [] d.kind = "inf" -> Dec("inf", d.neg, <<0>>, 0)
      [] OTHER ->
            IF BigIsZero[d.coef] \/ Underflows[d] THEN Dec("num", FALSE, <<0>>, 0)
            ELSE IF Overflows[d] THEN Dec("inf", d.neg, <<0>>, 0)
            ELSE Normal[d]

\* Result: Decimal("%.2f" % value)
ResultProcessor[v \in Decimals] ==
    IF v.kind = "inf" THEN v
    ELSE Dec("num", v.neg, RoundTo[v, Scale], 0 - Scale)

Row(name, image, price) == [name |-> name, image |-> image, price |-> price]

\* SerializerMixin.to_dict of a row loaded from the table; a Decimal is
\* rendered by str.format
to_dict(id, row) ==
    [id |-> id, name |-> row.name, image |-> row.image,
     price |-> StrOfDecimal[ResultProcessor[row.price]]]

\* to_dict of an instance never reloaded: the price as the handler built it
UnloadedDict(id, row, price) ==
    [id |-> id, name |-> row.name, image |-> row.image,
     price |-> StrOfDecimal[price]]

\* new_plant.to_dict() after the commit: every attribute is expired by the
\* commit and reloaded from the table
CreatedDict(id, row, price) == to_dict(id, row)

(***************************************************************************)
(* JSON values of a request body, as request.get_json() hands them over    *)
(***************************************************************************)
NotANumber == Dec("none", FALSE, <<0>>, 0)

Absent == [t |-> "absent", s |-> <<>>, d |-> NotANumber]

Null == [t |-> "null", s |-> <<>>, d |-> NotANumber]

JStr(s) == [t |-> "str", s |-> s, d |-> NotANumber]

JInt(n) ==
    [t |-> "int", s |-> <<>>,
     d |-> Dec("num", n < 0, BigOfNat[IF n < 0 THEN 0 - n ELSE n], 0)]

\* a JSON number with a fraction or an exponent: the Python float whose
\* shortest repr has these digits
JFloat(neg, digits, exp) ==
    [t |-> "float", s |-> <<>>, d |-> Dec("num", neg, digits, exp)]

\* the literal NaN, which json.loads accepts
JNaN == [t |-> "float", s |-> <<>>, d |-> Dec("nan", FALSE, <<>>, 0)]

JTrue == [t |-> "bool", s |-> <<>>, d |-> NotANumber]

\* repr() of a float: its shortest digits, with an exponent when the decimal
\* point is more than 16 places right or more than 3 places left of them
FloatRepr[d \in Decimals] ==
    LET sign   == IF d.neg THEN <<45>> ELSE <<>>
        digits == DigitText[SubSeq(d.coef, 1, Len(d.coef) - TrailingZeros[d.coef])]
        decpt  == Len(d.coef) + d.exp
        e      == IF decpt >= 1 THEN decpt - 1 ELSE 1 - decpt
        exp    == <<101>> \o (IF decpt >= 1 THEN <<43>> ELSE <<45>>)
                         \o (IF e < 10 THEN <<48>> ELSE <<>>) \o IntText[e]
    IN  CASE d.kind = "nan" -> Text(<<"n", "a", "n">>)
          [] d.kind = "inf" -> sign \o Text(<<"i", "n", "f">>)
          [] d.kind = "num" /\ BigIsZero[d.coef] -> sign \o Text(<<"0", ".", "0">>)
          [] OTHER ->
                IF decpt > 16 \/ decpt < -3
                THEN sign \o <<digits[1]>>
                          \o (IF Len(digits) > 1 THEN <<46>> \o Tail(digits) ELSE <<>>)
                          \o exp
                ELSE IF decpt <= 0
                THEN sign \o <<48, 46>> \o DigitText[Zeros(0 - decpt)] \o digits
                ELSE IF decpt >= Len(digits)
                THEN sign \o digits \o DigitText[Zeros(decpt - Len(digits))]
                          \o <<46, 48>>
                ELSE sign \o SubSeq(digits, 1, decpt) \o <<46>> \o Drop(digits, decpt)

\* str(price_str) of line 98
PyStr(j) ==
    CASE j.t = "str"   -> j.s
      [] j.t = "int"   -> StrOfDecimal[j.d]
      [] j.t = "float" -> FloatRepr[j.d]
      [] j.t = "bool"  -> Text(<<"T", "r", "u", "e">>)

\* A name or image value: a key left out, null, or a str
NAbsent == [t |-> "absent", s |-> ""]

NNull == [t |-> "null", s |-> ""]

NStr(s) == [t |-> "str", s |-> s]

\* Python truth of a name or image value: None and "" are falsy
Truthy(j) == j.t = "str" /\ j.s # ""

\* A request body: not JSON at all, or an object with these three keys' values
Body(name, image, price) ==
    [json |-> "object", name |-> name, image |-> image, price |-> price]

Malformed == [json |-> "malformed", name |-> NAbsent, image |-> NAbsent, price |-> Absent]

(***************************************************************************)
(* The table                                                               *)
(***************************************************************************)
MaxOf(S) == CHOOSE m \in S : \A x \in S : x <= m

\* INTEGER PRIMARY KEY without AUTOINCREMENT: one more than the largest id
\* present, 1 in an empty table
NextId(store) == IF DOMAIN store = {} THEN 1 ELSE MaxOf(DOMAIN store) + 1

Insert(store, id, row) ==
    [i \in DOMAIN store \cup {id} |-> IF i = id THEN row ELSE store[i]]

\* DELETE FROM plants WHERE id = ?: no row of that id is no error
Delete(store, id) == [i \in DOMAIN store \ {id} |-> store[i]]

\* Plant.query.all(): the rows by ascending id
QueryAll(store) ==
    [k \in 1..Cardinality(DOMAIN store) |->
        LET id == CHOOSE i \in DOMAIN store :
                      Cardinality({j \in DOMAIN store : j <= i}) = k
        IN  to_dict(id, store[id])]

\* The two rows seed.py inserts, with their ids given
SeedPlants ==
    Insert(Insert(<<>>, 1,
                  Row("Aloe", "./images/aloe.jpg",
                      BindProcessor[DecimalOf[Text(<<"1", "1", ".", "5", "0">>)]])),
           2, Row("ZZ Plant", "./images/zz-plant.jpg",
                  BindProcessor[DecimalOf[Text(<<"2", "5", ".", "9", "8">>)]]))

(***************************************************************************)
(* Responses and the error handlers                                        *)
(***************************************************************************)
NoPlant == [id |-> 0, name |-> "", image |-> "", price |-> <<>>]

\* make_response(jsonify(body), status); kind names the shape of the body:
\* "plant", "list", "error" ({"error": text}), "message" ({"message": text}),
\* or "html"
Response(status, kind, text, plant, list) ==
    [status |-> status, kind |-> kind, text |-> text, plant |-> plant, list |-> list]

ErrorResponse(status, text) == Response(status, "error", text, NoPlant, <<>>)

\* No response yet: the handler goes on with its next statement
Pending == Response(0, "pending", "", NoPlant, <<>>)

\* What an error handler is called with: an exception, or a plain str
Exc(text) == [isException |-> TRUE, text |-> text]

Str(text) == [isException |-> FALSE, text |-> text]

not_found(error) ==
    ErrorResponse(404, IF error.isException THEN error.text ELSE "Resource not found")

bad_request(error) ==
    ErrorResponse(400, IF error.isException THEN error.text ELSE "Bad Request")

internal_server_error(error) ==
    ErrorResponse(500, IF error.isException THEN error.text
                       ELSE "Internal Server Error")

\* str() of the BadRequest that request.get_json() raises on a body that is
\* not JSON
StrOfBadRequest ==
    "400 Bad Request: The browser (or proxy) sent a request that this server could not understand."

\* str() of the InternalServerError Flask makes of an exception that leaves a
\* view
StrOfInternalServerError ==
    "500 Internal Server Error: The server encountered an internal error and was unable to complete your request. Either the server is overloaded or there is an error in the application."

\* An exception that leaves the view: Flask answers 500, through the 500
\* handler, or, with debug=True, through the debugger's page
Escaped(debug) ==
    IF debug THEN Response(500, "html", "debugger", NoPlant, <<>>)
    ELSE internal_server_error(Exc(StrOfInternalServerError))

\* The texts the handlers pass
MsgNotFound(id) == "Plant with id " \o ToString(id) \o " not found"

MsgDeleted(id) == "Plant with id " \o ToString(id) \o " successfully deleted"

MsgMissing == "Missing required fields: 'name', 'image', and 'price'"

MsgEmpty == "Name, image, and price cannot be empty."

MsgPrice == "Price must be a valid number."

MsgIntegrity == "Failed to create plant due to data integrity issue."

(***************************************************************************)
(* The handlers.  Each gives the response (Pending when the handler goes   *)
(* on with another statement on the table), the table afterwards, whether  *)
(* the session was rolled back, and the failure that was hit.              *)
(*                                                                         *)
(* fault is the persistence call that fails while the request is served:   *)
(* "query" (Plant.query.all / Plant.query.get), "commit"                   *)
(* (db.session.commit), "to_dict" (serialising, which after a commit       *)
(* reloads the row), or "none".                                            *)
(*                                                                         *)
(* Requests are served concurrently, each on a connection of its own.  A   *)
(* read holds no lock when it is over and a commit releases the database,  *)
(* so the statements of two handlers interleave: create_plant and          *)
(* delete_plant are two steps each.                                        *)
(***************************************************************************)
Outcome(r, store, rb, hit) ==
    [resp |-> r, plants |-> store, rolledBack |-> rb, hit |-> hit]

StrOfFault == "(sqlite3.OperationalError) database is locked"

\* str() of the StatementError of a bind that raises
StrOfBindError == "(builtins.ValueError) cannot convert signaling NaN to float"

\* str() of the ObjectDeletedError of a reload that finds no row
StrOfDeleted ==
    "Instance '<Plant>' has been deleted, or its row is otherwise not present."

get_plants(store, fault) ==
    IF fault = "query"
    THEN Outcome(internal_server_error(Str(StrOfFault)), store, TRUE, "query")
    ELSE Outcome(Response(200, "list", "", NoPlant, QueryAll(store)),
                 store, FALSE, "none")

get_plant_by_id(store, id, fault, debug) ==
    IF fault = "query"
    THEN Outcome(Escaped(debug), store, FALSE, "query")
    ELSE IF id \notin DOMAIN store
    THEN Outcome(not_found(Str(MsgNotFound(id))), store, FALSE, "none")
    ELSE IF fault = "to_dict"
    THEN Outcome(internal_server_error(Str(StrOfFault)), store, FALSE, "to_dict")
    ELSE Outcome(Response(200, "plant", "", to_dict(id, store[id]), <<>>),
                 store, FALSE, "none")

HasKeys(data) ==
    data.name.t # "absent" /\ data.image.t # "absent" /\ data.price.t # "absent"

\* create_plant up to db.session.commit().  The price is bound when the
\* INSERT is built, the database is written to when it is executed, and the
\* row is checked against NOT NULL after the write lock is taken.
create_plant(store, data, fault, debug) ==
    IF data.json = "malformed"
    THEN Outcome(bad_request(Exc(StrOfBadRequest)), store, FALSE, "none")
    ELSE IF ~ HasKeys(data)
    THEN Outcome(bad_request(Str(MsgMissing)), store, FALSE, "none")
    ELSE IF ~ Truthy(data.name) \/ ~ Truthy(data.image) \/ data.price.t = "null"
    THEN Outcome(bad_request(Str(MsgEmpty)), store, FALSE, "none")
    ELSE IF DecimalRaises[PyStr(data.price)]
    THEN Outcome(Escaped(debug), store, FALSE, "none")
    ELSE IF BindRaises(DecimalOf[PyStr(data.price)])
    THEN Outcome(internal_server_error(Str(StrOfBindError)), store, TRUE, "none")
    ELSE IF fault = "commit"
    THEN Outcome(internal_server_error(Str(StrOfFault)), store, TRUE, "commit")
    ELSE IF BindProcessor[DecimalOf[PyStr(data.price)]] = NULL
    THEN Outcome(bad_request(Str(MsgIntegrity)), store, TRUE, "none")
    ELSE Outcome(Pending,
                 Insert(store, NextId(store),
                        Row(data.name.s, data.image.s,
                            BindProcessor[DecimalOf[PyStr(data.price)]])),
                 FALSE, "none")

\* create_plant from new_plant.to_dict(): the row of the new plant's id is
\* read again, and is not there if it was deleted since the commit
new_plant_to_dict(store, id, price, fault) ==
    IF fault = "to_dict"
    THEN Outcome(internal_server_error(Str(StrOfFault)), store, TRUE, "to_dict")
    ELSE IF id \notin DOMAIN store
    THEN Outcome(internal_server_error(Str(StrOfDeleted)), store, TRUE, "none")
    ELSE Outcome(Response(201, "plant", "", CreatedDict(id, store[id], price), <<>>),
                 store, FALSE, "none")

\* delete_plant up to Plant.query.get(id)
delete_plant(store, id, fault, debug) ==
    IF fault = "query"
    THEN Outcome(Escaped(debug), store, FALSE, "query")
    ELSE IF id \notin DOMAIN store
    THEN Outcome(not_found(Str(MsgNotFound(id))), store, FALSE, "none")
    ELSE Outcome(Pending, store, FALSE, "none")

\* delete_plant from db.session.delete(plant)
delete_plant_commit(store, id, fault) ==
    IF fault = "commit"
    THEN Outcome(internal_server_error(Str(StrOfFault)), store, TRUE, "commit")
    ELSE Outcome(Response(200, "message", MsgDeleted(id), NoPlant, <<>>),
                 Delete(store, id), FALSE, "none")

home == Response(200, "html", "<h1>Plant Store API</h1>", NoPlant, <<>>)

(***************************************************************************)
(* Requests                                                                *)
(***************************************************************************)
\* Ids asked for by GET and DELETE /plants/<int:id>
Ids == 1..MaxId

Names == {NStr("Aloe")}

Images == {NStr("./images/aloe.jpg")}

\* Price values of a body.  11.50 comes as a str and as the number 11.5;
\* 1000000000000000.07 has more digits than a float holds; " 1_0E1 " is 100
\* to Decimal; -0 is stored as the integer 0.
NumericPrices ==
    { JStr(Text(<<"1", "1", ".", "5", "0">>)),
      JFloat(FALSE, <<1, 1, 5>>, -1),
      JInt(12),
      JStr(Text(<<"1", "0", "0", "0", "0", "0", "0", "0", "0", "0", "0", "0",
                  "0", "0", "0", "0", ".", "0", "7">>)),
      JStr(Text(<<" ", "1", "_", "0", "E", "1", " ">>)),
      JStr(Text(<<"-", "0">>)) }

NonNumericPrices ==
    { JStr(Text(<<"a", "b", "c">>)), JNaN, JStr(Text(<<"s", "N", "a", "N">>)),
      JTrue }

\* Infinity is a Decimal, and a float
Prices ==
    NumericPrices \cup {JStr(Text(<<"I", "n", "f", "i", "n", "i", "t", "y">>))}
                  \cup NonNumericPrices

Payloads ==
    {Body(n, i, p) : n \in Names, i \in Images, p \in Prices \cup {Absent, Null}}
    \cup {Body(n, i, JInt(12)) : n \in {NAbsent, NNull, NStr("")}, i \in Images}
    \cup {Body(n, i, JInt(12)) : n \in Names, i \in {NAbsent, NNull, NStr("")}}
    \cup {Body(NAbsent, NAbsent, Absent), Malformed}

\* A request that was answered; changed: its handler changed the table
Request(op, id, data, fault, changed) ==
    [op |-> op, id |-> id, data |-> data, fault |-> fault, changed |-> changed]

\* A request between two statements of its handler: the n-th to arrive; id is
\* that of the row inserted or looked up, price the Decimal of a create
InFlight(n, op, id, data, price) ==
    [n |-> n, op |-> op, id |-> id, data |-> data, price |-> price]

Init ==
    /\ plants = <<>>
    /\ flight = {}
    /\ req = Request("none", 0, Malformed, "none", FALSE)
    /\ resp = Response(0, "none", "", NoPlant, <<>>)
    /\ rolledBack = FALSE
    /\ issuedLog = <<>>
    /\ made = {}
    /\ gone = {}
    /\ live = <<>>
    /\ nCreated = 0
    /\ nDeleted = 0
    /\ nReq = 0
    /\ seedPc = "idle"
    /\ nSeed = 0

\* seed.py, lines 14-20: Plant.query.delete() and commit, every row deleted;
\* or either fails, the session is rolled back and the script goes on.  It
\* is run at any time, beside the server.
SeedDelete ==
    /\ nSeed < MaxSeed
    /\ seedPc = "idle"
    /\ seedPc' = "insert"
    /\ nSeed' = nSeed + 1
    /\ \E fault \in {"none", "commit"} :
           IF fault = "none"
           THEN plants' = <<>> /\ live' = <<>>
           ELSE UNCHANGED <<plants, live>>
    /\ UNCHANGED <<flight, req, resp, rolledBack, issuedLog, made, gone,
                   nCreated, nDeleted, nReq>>

\* seed.py, lines 28-51: the two rows are added and committed; or the commit
\* fails, on a row that has one of their ids or on the database, and is
\* rolled back
SeedInsert ==
    /\ seedPc = "insert"
    /\ seedPc' = "idle"
    /\ \E fault \in {"none", "commit"} :
           IF fault = "none" /\ DOMAIN plants \cap DOMAIN SeedPlants = {}
           THEN /\ plants' = [i \in DOMAIN plants \cup DOMAIN SeedPlants |->
                                  IF i \in DOMAIN plants THEN plants[i]
                                  ELSE SeedPlants[i]]
                /\ made' = made \cup DOMAIN SeedPlants
           ELSE UNCHANGED <<plants, made>>
    /\ UNCHANGED <<flight, req, resp, rolledBack, issuedLog, gone, live,
                   nCreated, nDeleted, nReq, nSeed>>

\* A request arrives, and its handler runs with outcome o.  A failure that
\* the handler never reaches, or a debug setting that the response does not
\* show, is the same request as the one without it and is taken once.
Arrives(o, fault, debug) ==
    /\ o.hit = fault
    /\ debug => o.resp.kind = "html"
    /\ o.resp = Pending => Cardinality(flight) < MaxInFlight
    /\ nReq' = nReq + 1
    /\ plants' = o.plants

\* The response o.resp is returned to request r
Answered(r, o) ==
    /\ req' = r
    /\ resp' = o.resp
    /\ rolledBack' = o.rolledBack

Home ==
    /\ nReq < MaxReq
    /\ Arrives(Outcome(home, plants, FALSE, "none"), "none", FALSE)
    /\ Answered(Request("home", 0, Malformed, "none", FALSE),
                Outcome(home, plants, FALSE, "none"))
    /\ UNCHANGED <<flight, issuedLog, made, gone, live, nCreated, nDeleted,
                   seedPc, nSeed>>

GetPlants ==
    /\ nReq < MaxReq
    /\ \E fault \in {"none", "query"} :
           \E o \in {get_plants(plants, fault)} :
               /\ Arrives(o, fault, FALSE)
               /\ Answered(Request("list", 0, Malformed, o.hit, FALSE), o)
               /\ UNCHANGED <<flight, issuedLog, made, gone, live, nCreated, nDeleted,
                              seedPc, nSeed>>

GetPlantById ==
    /\ nReq < MaxReq
    /\ \E id \in Ids, fault \in {"none", "query", "to_dict"}, debug \in BOOLEAN :
           \E o \in {get_plant_by_id(plants, id, fault, debug)} :
               /\ Arrives(o, fault, debug)
               /\ Answered(Request("get", id, Malformed, o.hit, FALSE), o)
               /\ UNCHANGED <<flight, issuedLog, made, gone, live, nCreated, nDeleted,
                              seedPc, nSeed>>

\* POST /plants, to the commit
CreatePlant ==
    /\ nReq < MaxReq
    /\ \E data \in Payloads, fault \in {"none", "commit"}, debug \in BOOLEAN :
           \E o \in {create_plant(plants, data, fault, debug)} :
               /\ Arrives(o, fault, debug)
               /\ IF o.resp = Pending
                  THEN /\ flight' = flight \cup
                               {InFlight(nReq + 1, "create", NextId(plants), data,
                                         DecimalOf[PyStr(data.price)])}
                       /\ made' = made \cup {NextId(plants)}
                       /\ UNCHANGED <<req, resp, rolledBack>>
                  ELSE /\ Answered(Request("create", 0, data, o.hit, FALSE), o)
                       /\ UNCHANGED <<flight, made>>
               /\ UNCHANGED <<issuedLog, gone, live, nCreated, nDeleted, seedPc,
                              nSeed>>

\* POST /plants, from the commit to the response
CreatePlantResponse ==
    \E f \in flight, fault \in {"none", "to_dict"} :
        /\ f.op = "create"
        /\ \E o \in {new_plant_to_dict(plants, f.id, f.price, fault)} :
               /\ o.hit = fault
               /\ flight' = flight \ {f}
               /\ Answered(Request("create", 0, f.data, o.hit, TRUE), o)
               /\ IF o.resp.status = 201
                  THEN /\ issuedLog' = Append(issuedLog, o.resp.plant.id)
                       /\ live' = Insert(live, o.resp.plant.id, o.resp.plant)
                       /\ nCreated' = nCreated + 1
                  ELSE UNCHANGED <<issuedLog, live, nCreated>>
        /\ UNCHANGED <<plants, made, gone, nDeleted, nReq, seedPc, nSeed>>

\* DELETE /plants/<id>, to the lookup
DeletePlant ==
    /\ nReq < MaxReq
    /\ \E id \in Ids, fault \in {"none", "query"}, debug \in BOOLEAN :
           \E o \in {delete_plant(plants, id, fault, debug)} :
               /\ Arrives(o, fault, debug)
               /\ IF o.resp = Pending
                  THEN /\ flight' = flight \cup
                               {InFlight(nReq + 1, "delete", id, Malformed, NotANumber)}
                       /\ UNCHANGED <<req, resp, rolledBack>>
                  ELSE /\ Answered(Request("delete", id, Malformed, o.hit, FALSE), o)
                       /\ UNCHANGED flight
               /\ UNCHANGED <<issuedLog, made, gone, live, nCreated, nDeleted,
                              seedPc, nSeed>>

\* DELETE /plants/<id>, from the lookup to the response
DeletePlantCommit ==
    \E f \in flight, fault \in {"none", "commit"} :
        /\ f.op = "delete"
        /\ \E o \in {delete_plant_commit(plants, f.id, fault)} :
               /\ flight' = flight \ {f}
               /\ plants' = o.plants
               /\ Answered(Request("delete", f.id, Malformed, o.hit,
                                    o.plants # plants), o)
               /\ IF o.resp.status = 200
                  THEN /\ gone' = gone \cup {f.id}
                       /\ live' = Delete(live, f.id)
                       /\ nDeleted' = nDeleted + 1
                  ELSE UNCHANGED <<gone, live, nDeleted>>
        /\ UNCHANGED <<issuedLog, made, nCreated, nReq, seedPc, nSeed>>

Next ==
    \/ SeedDelete
    \/ SeedInsert
    \/ Home
    \/ GetPlants
    \/ GetPlantById
    \/ CreatePlant
    \/ CreatePlantResponse
    \/ DeletePlant
    \/ DeletePlantCommit

Spec == Init /\ [][Next]_vars

(***************************************************************************)
(* Properties                                                              *)
(***************************************************************************)
\* C1: the id returned by a successful create was never returned by an
\* earlier successful create, deleted since or not: no id occurs twice among
\* the ids the 201 responses returned.
C1_IdNeverReused ==
    \A i, j \in 1..Len(issuedLog) : i # j => issuedLog[i] # issuedLog[j]

\* The payloads C2 speaks of: a key missing, an empty name or image, a null
\* or non-numeric price
C2_Invalid(data) ==
    /\ data.json = "object"
    /\ \/ ~ HasKeys(data)
       \/ data.name = NStr("")
       \/ data.image = NStr("")
       \/ data.price = Null
       \/ data.price \in NonNumericPrices

\* C2: a create whose payload misses name, image or price, or has an empty
\* name or image, or a null or non-numeric price, responds 400 and has not
\* changed the table (no persistence call failing).
C2_InvalidPayloadIs400 ==
    (req.op = "create" /\ C2_Invalid(req.data) /\ req.fault = "none")
        => (resp.status = 400 /\ ~ req.changed)

\* C3: GET and DELETE of an id that no row was ever inserted with, or that a
\* DELETE has answered 200 for, respond 404 with the body
\* {"error": "Plant with id {id} not found"}.
C3_AbsentIdIs404NamingId ==
    ( /\ req.op \in {"get", "delete"}
      /\ req.fault = "none"
      /\ req.id \notin made \/ req.id \in gone )
        => ( /\ resp.status = 404
             /\ resp.kind = "error"
             /\ resp.text = MsgNotFound(req.id) )

\* C4: once a DELETE of an id has responded 200, every later GET of that id
\* responds 404, whatever was created in between.
C4_DeletedIdStays404 ==
    (req.op = "get" /\ req.id \in gone /\ req.fault = "none")
        => resp.status = 404

\* C5: after a 201 returning record R with id i and before any delete of i
\* (a DELETE of i answered 200, or seed.py deleting every row), a GET of i
\* responds 200 with a body identical to R, whatever was created and deleted
\* under other ids; the only other response it can get is the 500 of a
\* persistence failure.
C5_GetReturnsCreated ==
    (req.op = "get" /\ req.id \in DOMAIN live)
        => IF req.fault = "none"
           THEN resp.status = 200 /\ resp.kind = "plant" /\ resp.plant = live[req.id]
           ELSE resp.status = 500

\* a GET that returns the record of an earlier 201, created from the number
\* 11.5 or a str, after the row of another id was deleted
C5_Witness ==
    /\ req.op = "get"
    /\ req.id \in DOMAIN live
    /\ resp.status = 200
    /\ resp.plant.price = Text(<<"1", "1", ".", "5", "0">>)
    /\ gone # {}

\* C6: from an empty table, GET /plants returns exactly N - M records after N
\* creates that responded 201 and M deletes that responded 200 (seed.py not
\* run, and no request still being served), and a request answered 400, 404
\* or 500 has not changed the table.
C6_ListCountIsCreatedMinusDeleted ==
    /\ (req.op = "list" /\ resp.status = 200 /\ nSeed = 0 /\ flight = {})
           => Len(resp.list) = nCreated - nDeleted
    /\ resp.status \in {400, 404, 500} => ~ req.changed

\* The validation step of create_plant a body fails at, 0 if none, and the
\* message the handler passes for it
C7_Step(data) ==
    IF ~ HasKeys(data) THEN 1
    ELSE IF ~ Truthy(data.name) \/ ~ Truthy(data.image) \/ data.price = Null THEN 2
    ELSE IF DecimalRaises[PyStr(data.price)] THEN 3
    ELSE 0

C7_Message(step) ==
    CASE step = 1 -> MsgMissing
      [] step = 2 -> MsgEmpty
      [] step = 3 -> MsgPrice

\* C7: every validation failure of a create responds 400 with the body
\* {"error": message}, the message naming the constraint that was violated,
\* one message for each of the three validation steps.
C7_ValidationMessageNamesConstraint ==
    (req.op = "create" /\ req.data.json = "object" /\ C7_Step(req.data) # 0)
        => ( /\ resp.status = 400
             /\ resp.kind = "error"
             /\ resp.text = C7_Message(C7_Step(req.data)) )

\* The value of a number, whatever its exponent and the sign of a zero
C8_Value(d) ==
    IF BigIsZero[d.coef] THEN Dec("num", FALSE, <<0>>, 0)
    ELSE Dec("num", d.neg, SubSeq(d.coef, 1, Len(d.coef) - TrailingZeros[d.coef]),
             d.exp + TrailingZeros[d.coef])

\* a price of a body that is a number with at most Scale fraction digits
C8_Numeric(j) ==
    /\ j.t \in {"str", "int", "float"}
    /\ ~ DecimalRaises[PyStr(j)]
    /\ DecimalOf[PyStr(j)].kind = "num"
    /\ DecimalOf[PyStr(j)].exp >= 0 - Scale

\* the price text of a response is a number with exactly Scale fraction
\* digits
C8_AtScale(text) ==
    /\ ~ DecimalRaises[text]
    /\ DecimalOf[text].kind = "num"
    /\ DecimalOf[text].exp = 0 - Scale

\* C8: a numeric price with at most 2 fraction digits, given as a number or
\* as a str, is rendered by the 201 response with exactly 2 fraction digits
\* and the same value; every later read of the record renders the same text;
\* and the price of every persisted plant is a number of scale 2.
C8_PriceRoundTripsAtScale2 ==
    /\ (req.op = "create" /\ resp.status = 201 /\ C8_Numeric(req.data.price))
           => ( /\ C8_AtScale(resp.plant.price)
                /\ C8_Value(DecimalOf[resp.plant.price])
                       = C8_Value(DecimalOf[PyStr(req.data.price)]) )
    /\ \A id \in DOMAIN live \cap DOMAIN plants :
           to_dict(id, plants[id]).price = live[id].price
    /\ \A id \in DOMAIN plants : C8_AtScale(to_dict(id, plants[id]).price)

\* C9: a create or a delete either commits its change and answers 201 / 200,
\* or has not changed the table and, when a persistence call failed, has
\* rolled the session back before the error response.
C9_MutationIsAtomic ==
    req.op \in {"create", "delete"}
        => \/ resp.status \in {200, 201}
           \/ /\ ~ req.changed
              /\ req.fault # "none" => rolledBack

\* C10: a read handler (GET /plants, GET /plants/{id}) that meets a
\* persistence failure at any step, the lookup by primary key included, rolls
\* the session back and answers 500 with the body {"error": message}.
C10_ReadFailureRollsBack ==
    (req.op \in {"list", "get"} /\ req.fault # "none")
        => (resp.status = 500 /\ resp.kind = "error" /\ rolledBack)

====
